---- MODULE Spec2Model ----
(***************************************************************************)
(* A model of sfoda/dataio/datadownload/mythredds.py: the coordinate       *)
(* locator and window resolver of GridDAP, the multi-file time index       *)
(* MFncdap, the chunk retrieval of GridDAP.get_data_singlefile and         *)
(* get_data_multifile with its recursive retries, the store writer         *)
(* GetDAP.write_var, and the constructor of GridDAP.                       *)
(*                                                                         *)
(* Conventions.  Python indices are kept 0-based; a numpy array is a TLA+  *)
(* sequence, so element k of the array is s[k+1].  None is the empty       *)
(* tuple.  Timestamps are whole numbers of seconds.                        *)
(***************************************************************************)
EXTENDS Integers, Sequences, FiniteSets, TLC

\* The longest coordinate axis the model draws.
MaxAxisLen == 3
\* The largest coordinate value on an axis; queries reach one beyond each end.
MaxVal == 2

None == <<>>

Abs(x) == IF x < 0 THEN -x ELSE x
Min2(a, b) == IF a <= b THEN a ELSE b
Max2(a, b) == IF a >= b THEN a ELSE b
Range(s) == {s[i] : i \in 1..Len(s)}
SetMin(S) == CHOOSE m \in S : \A x \in S : m <= x
SetMax(S) == CHOOSE m \in S : \A x \in S : m >= x

\* All sequences over S of length lo..hi.
SeqsOf(S, lo, hi) == UNION {[1..n -> S] : n \in lo..hi}
StrictlyIncreasing(s) == \A i \in 1..(Len(s) - 1) : s[i] < s[i + 1]
StrictlyDecreasing(s) == \A i \in 1..(Len(s) - 1) : s[i] > s[i + 1]

----------------------------------------------------------------------------
(* numpy helpers *)

\* np.argwhere on a 1D boolean array: the 0-based indices that are true, in order.
argwhere(b) ==
    LET idx == [i \in 1..Len(b) |-> i - 1]
    IN  SelectSeq(idx, LAMBDA k : b[k + 1])

\* a[lo:hi] on a 1D array of length Len(a): numpy clips both ends to the array
\* (the model never passes a negative index).
Slice(a, lo, hi) ==
    LET l == Min2(lo, Len(a))
        h == Min2(hi, Len(a))
    IN  IF h <= l THEN <<>> ELSE [i \in 1..(h - l) |-> a[l + i]]

----------------------------------------------------------------------------
(* CoordinateLocator *)

\* GridDAP.find_nearest_1d, taking the last of the minimising indices.
find_nearest_1d_last(data, value) ==
    LET dist == [i \in 1..Len(data) |-> Abs(data[i] - value)]
        dmin == SetMin(Range(dist))
        hits == argwhere([i \in 1..Len(dist) |-> dist[i] = dmin])
    IN  hits[Len(hits)]

\* GridDAP.find_nearest_1d: dist = np.abs(data-value);
\* np.argwhere(dist==dist.min())[0][0].
find_nearest_1d(data, value) ==
    LET dist == [i \in 1..Len(data) |-> Abs(data[i] - value)]
        dmin == SetMin(Range(dist))
        hits == argwhere([i \in 1..Len(dist) |-> dist[i] = dmin])
    IN  hits[1]

\* GridDAP.find_nearest_2d: np.argwhere(dist==dist.min()), the [row, col]
\* pairs of the minimising cells in row-major order.  dist is compared
\* squared: the square root is monotonic.
find_nearest_2d(xdata, ydata, xy) ==
    LET nr == Len(xdata)
        nc == Len(xdata[1])
        dist(r, c) == (xy[1] - xdata[r][c]) * (xy[1] - xdata[r][c])
                      + (xy[2] - ydata[r][c]) * (xy[2] - ydata[r][c])
        dmin == SetMin({dist(r, c) : r \in 1..nr, c \in 1..nc})
        flat == [k \in 1..(nr * nc) |-> <<(k - 1) \div nc, (k - 1) % nc>>]
    IN  SelectSeq(flat, LAMBDA p : dist(p[1] + 1, p[2] + 1) = dmin)

\* othertime.findNearest(t, timevec): the index of the time point nearest to t.
findNearest(t, timevec) == find_nearest_1d(timevec, t)

----------------------------------------------------------------------------
(* WindowResolver *)

\* The x part of GridDAP.get_indices (lines 133-139 and 150-162): x1, x2 and
\* the two indices as first resolved (ra, rb).
get_indices_xwin(X, ndim, xrange, yrange, Y) ==
    IF ndim = 1
    THEN IF xrange = None
         THEN [a |-> 0, b |-> Len(X), ra |-> 0, rb |-> Len(X)]
         ELSE LET a == find_nearest_1d(X, xrange[1])
                  b == find_nearest_1d(X, xrange[2])
              IN  [a |-> a, b |-> b, ra |-> a, rb |-> b]
    ELSE IF xrange = None \/ yrange = None
         THEN [a |-> 0, b |-> Len(X[1]), ra |-> 0, rb |-> Len(X[1])]
         ELSE LET i1 == find_nearest_2d(X, Y, <<xrange[1], yrange[1]>>)
                  i2 == find_nearest_2d(X, Y, <<xrange[2], yrange[2]>>)
              IN  [a |-> i1[1][2], b |-> i2[1][2],
                   ra |-> i1[1][2], rb |-> i2[1][2]]

\* The y part of GridDAP.get_indices (lines 141-148 and 150-162).
get_indices_ywin(X, ndim, xrange, yrange, Y) ==
    IF ndim = 1
    THEN IF yrange = None
         THEN [a |-> 0, b |-> Len(Y), ra |-> 0, rb |-> Len(Y)]
         ELSE LET y1 == find_nearest_1d(Y, yrange[1])
                  y2 == find_nearest_1d(Y, yrange[2])
              IN  [a |-> Min2(y1, y2), b |-> Max2(y1, y2),
                   ra |-> y1, rb |-> y2]
    ELSE IF xrange = None \/ yrange = None
         THEN [a |-> 0, b |-> Len(Y), ra |-> 0, rb |-> Len(Y)]
         ELSE LET i1 == find_nearest_2d(X, Y, <<xrange[1], yrange[1]>>)
                  i2 == find_nearest_2d(X, Y, <<xrange[2], yrange[2]>>)
              IN  [a |-> i1[1][1], b |-> i2[1][1],
                   ra |-> i1[1][1], rb |-> i2[1][1]]

\* The depth part of GridDAP.get_indices (lines 167-176); Z = None is
\* zcoord == None, and then z1, z2 and nz are not set (kept 0 here).  The
\* source calls find_nearest_1d(zrange[0], self.Z) with the arguments
\* swapped: np.abs(data-value) is the same array either way.
get_indices_zwin(Z, zrange) ==
    IF Z = None
    THEN [a |-> 0, b |-> 0, ra |-> 0, rb |-> 0]
    ELSE IF zrange = None
         THEN [a |-> 0, b |-> Len(Z), ra |-> 0, rb |-> Len(Z)]
         ELSE LET z1 == find_nearest_1d(Z, zrange[1])
                  z2 == find_nearest_1d(Z, zrange[2])
              IN  [a |-> z1, b |-> IF z1 = z2 THEN z2 + 1 ELSE z2,
                   ra |-> z1, rb |-> z2]

\* GridDAP.get_time_indices (lines 113-124) on the time axis self.time.
get_time_indices(time, trange) ==
    LET t1 == IF trange = None THEN 0 ELSE findNearest(trange[1], time)
        t2 == IF trange = None THEN Len(time) ELSE findNearest(trange[2], time)
    IN  [a |-> t1, b |-> IF t1 = t2 THEN t2 + 1 ELSE t2, ra |-> t1, rb |-> t2]

\* datetime.strftime(t, '%Y%m%d.%H%M%S') and datetime.strptime of it, for a
\* timestamp of whole seconds: the text is the pair (minutes, seconds).
strftime(t) == <<t \div 60, t % 60>>
strptime(s) == s[1] * 60 + s[2]

\* GetDAP.check_trange: the two datetimes, or the exception raised.  A trange
\* is [kind, v]: kind "none" is None, "str" two strings in tformat,
\* "datetime" two datetimes, "other" two values of another type.
check_trange(trange) ==
    IF trange.kind = "none"
    THEN [raised |-> "TypeError", v |-> None]
    ELSE IF trange.kind = "str"
         THEN [raised |-> "", v |-> <<strptime(trange.v[1]), strptime(trange.v[2])>>]
         ELSE IF trange.kind = "datetime"
              THEN [raised |-> "", v |-> trange.v]
              ELSE [raised |-> "Exception", v |-> None]

----------------------------------------------------------------------------
(* TimeAxisAggregator: MFncdap *)

\* The files the model gives names to, in ncfilelist order.
FileNames == <<"A", "B">>
\* The most records one file holds.
MaxRec == 3
\* The largest timestamp a file reports.
MaxT == 4

\* The position of a file name in FileNames.
FilePos(f) == CHOOSE i \in 1..Len(FileNames) : FileNames[i] = f

\* np.unique: the sorted sequence of the distinct elements.
RECURSIVE unique(_)
unique(S) ==
    IF S = {} THEN <<>>
    ELSE LET m == SetMin(S) IN <<m>> \o unique(S \ {m})

\* The loop of MFncdap.__init__ with a key that is already present kept.
RECURSIVE timelookup_first(_, _)
timelookup_first(flist, k) ==
    IF k = 0 THEN [key \in {} |-> <<>>]
    ELSE LET prev == timelookup_first(flist, k - 1)
             f == flist[k]
             keys == {strftime(f.time[i]) : i \in 1..Len(f.time)}
             ii(key) == SetMin({i \in 1..Len(f.time) : strftime(f.time[i]) = key})
         IN  [key \in (DOMAIN prev) \cup keys |->
                 IF key \in DOMAIN prev THEN prev[key]
                 ELSE <<f.name, ii(key) - 1>>]

\* self._timelookup after the loop of MFncdap.__init__ (lines 829-846) has
\* processed the first k files: every (file, record) is stored under
\* strftime of its timestamp, a later one replacing an earlier one.
RECURSIVE timelookup(_, _)
timelookup(flist, k) ==
    IF k = 0 THEN [key \in {} |-> <<>>]
    ELSE LET prev == timelookup(flist, k - 1)
             f == flist[k]
             keys == {strftime(f.time[i]) : i \in 1..Len(f.time)}
             ii(key) == SetMax({i \in 1..Len(f.time) : strftime(f.time[i]) = key})
         IN  [key \in (DOMAIN prev) \cup keys |->
                 IF key \in keys THEN <<f.name, ii(key) - 1>>
                 ELSE prev[key]]

\* MFncdap.__init__: the lookup and the logical time axis.  timeall is a list
\* of one array per file; np.array(timeall) is a 2D array only when the files
\* hold the same number of records, and np.unique flattens and sorts it.
\* With unequal record counts np.array raises (numpy >= 1.24) or builds an
\* array of arrays that np.unique cannot sort: the constructor raises.
MFncdap_init(flist) ==
    LET lens == {Len(flist[k].time) : k \in 1..Len(flist)}
        all == UNION {Range(flist[k].time) : k \in 1..Len(flist)}
    IN  IF Cardinality(lens) > 1
        THEN [state |-> "raised", lookup |-> [key \in {} |-> <<>>], time |-> <<>>]
        ELSE [state |-> "built", lookup |-> timelookup(flist, Len(flist)),
              time |-> unique(all)]

\* MFncdap.__call__ with tslice_dict a plain dict iterated in file-name order.
MFncdap_call_sorted(lookup, time) ==
    LET fname == [i \in 1..Len(time) |-> lookup[strftime(time[i])][1]]
        tind == [i \in 1..Len(time) |-> lookup[strftime(time[i])][2]]
        names == unique({FilePos(fname[i]) : i \in 1..Len(time)})
    IN  [k \in 1..Len(names) |->
            LET f == FileNames[names[k]]
                vals == {tind[i] : i \in {j \in 1..Len(time) : fname[j] = f}}
            IN  [f |-> f, lo |-> SetMin(vals), hi |-> SetMax(vals)]]

\* MFncdap.__call__ (lines 856-878): tslice_dict as the sequence of its items,
\* one [file, min index, max index] per file, in the order the files first
\* appear among the requested timestamps (an OrderedDict).
MFncdap_call(lookup, time) ==
    LET fname == [i \in 1..Len(time) |-> lookup[strftime(time[i])][1]]
        tind == [i \in 1..Len(time) |-> lookup[strftime(time[i])][2]]
        idx == [i \in 1..Len(time) |-> i]
        firsts == SelectSeq(idx, LAMBDA i : \A j \in 1..(i - 1) : fname[j] # fname[i])
    IN  [k \in 1..Len(firsts) |->
            LET f == fname[firsts[k]]
                vals == {tind[i] : i \in {j \in 1..Len(time) : fname[j] = f}}
            IN  [f |-> f, lo |-> SetMin(vals), hi |-> SetMax(vals)]]

----------------------------------------------------------------------------
(* ChunkRetriever and MultiFileStitcher *)

\* GridDAP.graball, the class default: try the bulk read first.
graball == TRUE

\* Record i of file f as the remote store serves it, and an element np.zeros
\* left untouched.
rec(f, i) == <<f, i>>
Zero == <<"", 0>>
zeros(n) == [i \in 1..n |-> Zero]

\* nc.variables[varname][t1:t2, ...] on a file of n records.
bulk_read(f, n, t1, t2) == Slice([i \in 1..n |-> rec(f, i - 1)], t1, t2)

\* data[p1:p2+1, ...] = chunk (line 271): numpy clips the slice to the array;
\* the chunk must have as many rows as the slice, or one row, which is
\* broadcast.  Anything else raises ValueError.
assign_rows(data, p1, p2, chunk) ==
    LET lo == Min2(p1, Len(data))
        hi == Min2(p2 + 1, Len(data))
        m == Max2(0, hi - lo)
    IN  IF Len(chunk) = m
        THEN [raised |-> FALSE,
              data |-> [i \in 1..Len(data) |->
                          IF i > lo /\ i <= hi THEN chunk[i - lo] ELSE data[i]]]
        ELSE IF Len(chunk) = 1
             THEN [raised |-> FALSE,
                   data |-> [i \in 1..Len(data) |->
                               IF i > lo /\ i <= hi THEN chunk[1] ELSE data[i]]]
             ELSE [raised |-> TRUE, data |-> data]

----------------------------------------------------------------------------
(* OutputStoreWriter *)

\* cftime date2num and num2pydate for the units of the store's time variable:
\* seconds since an epoch 100 s before timestamp 0.
date2num(t) == t + 100
num2pydate(n) == n - 100

\* netCDF4 date2index(date, nctime) with select='exact': the index of the
\* stored value equal to date2num(date), or ValueError when there is none
\* (before the first, after the last, or between two values).  On a time
\* variable of one value old releases raise whatever the date; the fallback
\* of write_time_var then gives the index an exact search gives.
date2index(date, nctime) ==
    LET hits == {i \in 1..Len(nctime) : nctime[i] = date2num(date)}
    IN  IF hits = {} THEN [raised |-> TRUE, index |-> 0]
        ELSE [raised |-> FALSE, index |-> SetMin(hits) - 1]

\* The value netCDF gives a row of a variable that was never written.
Fill == <<"fill">>

\* var[lo:lo+len(rows)] = rows on a variable along the unlimited dimension:
\* the rows are overwritten and the variable grows to hold them.
set_rows(old, lo, rows) ==
    LET n == Max2(Len(old), lo + Len(rows))
    IN  [i \in 1..n |->
            IF i > lo /\ i <= lo + Len(rows) THEN rows[i - lo]
            ELSE IF i <= Len(old) THEN old[i] ELSE Fill]

\* A variable padded with fill values to the length of the unlimited dimension.
pad(old, n) == [i \in 1..Max2(n, Len(old)) |-> IF i <= Len(old) THEN old[i] ELSE Fill]

\* GetDAP.write_time_var(tout, timecoord) for a named time coordinate: the new
\* time variable and self.tindex.
write_time_var(st, tout) ==
    IF st.hasTime
    THEN LET localtime == [i \in 1..Len(st.time) |-> num2pydate(st.time[i])]
             found == date2index(tout[1], st.time)
             t1 == IF ~found.raised THEN found.index
                   ELSE IF tout[1] > localtime[1] THEN 1 ELSE 0
             tindex == <<t1, t1 + Len(tout)>>
         IN  [time |-> IF Len(localtime) < tindex[2]
                       THEN set_rows(st.time, tindex[1],
                                     [i \in 1..Len(tout) |-> date2num(tout[i])])
                       ELSE st.time,
              tindex |-> tindex]
    ELSE [time |-> [i \in 1..Len(tout) |-> date2num(tout[i])],
          tindex |-> <<0, Len(tout)>>]

\* The nested retry frames the interpreter allows (sys.getrecursionlimit()
\* less the frames already on the stack; 1000 by default).
RecursionLimit == 2

----------------------------------------------------------------------------
VARIABLES
    nAxis,      \* find_nearest_1d: the axis array passed as data
    nValue,     \* find_nearest_1d: the query value
    nResult,    \* find_nearest_1d: the returned index (-1 before the call)
    nPc,        \* "call" before the call, "done" after it
    grid,       \* GridDAP: X, Y, Z (None when zcoord is None), the time axis,
                \* and X.ndim (1: axes, 2: curvilinear grids)
    win,        \* GridDAP: the windows x, y, z, t, each [a, b) as stored in
                \* x1/x2 ... t1/t2, with the indices as first resolved (ra, rb)
    call,       \* the caller-facing call: which entry point ran, how it ended,
                \* and the shape of the array it returned
    files,      \* the source files in ncfilelist order, each [name, time axis]
    multifile,  \* GridDAP.multifile
    mf,         \* the MFncdap object: its _timelookup and its time axis
    rq,         \* GridDAP.get_data in progress: the window, tslice_dict, the
                \* loop position, the output array
    ck,         \* GridDAP.get_data_singlefile in progress: its arguments, the
                \* step-by-step loop, the array it returned
    fails,      \* remote opens and one-record reads that have failed so far
    depth,      \* nested frames of the retry function that is running
    srcTime,    \* the time axis of the source the windows are taken from
    store,      \* the output store: its time variable and its data variables
    tindex,     \* GetDAP.tindex, the rows the last write_var wrote
    writes,     \* the write_var calls made so far: variable and time window
    ctor        \* a GridDAP(url, **kwargs) call: its arguments and what it did

varsN == <<nAxis, nValue, nResult, nPc>>
varsW == <<grid, win, call>>
varsR == <<files, multifile, mf, rq, ck, fails, depth>>
varsS == <<srcTime, store, tindex, writes>>
varsC == <<ctor>>

vars == <<nAxis, nValue, nResult, nPc, grid, win, call,
          files, multifile, mf, rq, ck, fails, depth,
          srcTime, store, tindex, writes, ctor>>

----------------------------------------------------------------------------
(* SpecNearest: find_nearest_1d applied to every axis and query in bounds. *)

AxisVals == 0..MaxVal
QueryVals == (0 - 1)..(MaxVal + 1)

NearestIdle ==
    /\ nAxis = <<>>
    /\ nValue = 0
    /\ nResult = 0 - 1
    /\ nPc = "idle"

NoWindow == [a |-> 0, b |-> 0, ra |-> 0, rb |-> 0]

WindowIdle ==
    /\ grid = [X |-> <<>>, Y |-> <<>>, Z |-> None, time |-> <<>>, ndim |-> 1]
    /\ win = [x |-> NoWindow, y |-> NoWindow, z |-> NoWindow, t |-> NoWindow]
    /\ call = [op |-> "", state |-> "idle", req |-> <<>>, trNone |-> FALSE,
               zrNone |-> FALSE, shape |-> <<>>, retries |-> 0]

NoMF == [state |-> "none", lookup |-> [key \in {} |-> <<>>], time |-> <<>>]
NoRq == [pc |-> "idle", t1 |-> 0, t2 |-> 0, nt |-> 0, localtime |-> <<>>,
         tslice |-> <<>>, k |-> 0, p1 |-> 0, data |-> <<>>, fellBack |-> FALSE]
NoCk == [f |-> "", t1 |-> 0, t2 |-> 0, buf |-> <<>>, ii |-> 0, tt |-> 0,
         bulkFailed |-> FALSE, stepFailed |-> FALSE, returned |-> FALSE,
         ret |-> <<>>]

RetrievalIdle ==
    /\ files = <<>>
    /\ multifile = FALSE
    /\ mf = NoMF
    /\ rq = NoRq
    /\ ck = NoCk
    /\ fails = 0
    /\ depth = 0

\* No GridDAP is being constructed.
NoCtor == [url |-> [kind |-> "", v |-> <<>>], multifile |-> FALSE,
           gridfile |-> None, zcoord |-> None, state |-> "idle",
           opened |-> <<>>, attempts |-> 0, coords |-> {}]
CtorIdle == ctor = NoCtor

\* The variables GetDAP is asked for.
Variables == {"ssh", "temp"}

EmptyStore == [hasTime |-> FALSE, time |-> <<>>,
               created |-> {}, data |-> [v \in Variables |-> <<>>]]

StoreIdle ==
    /\ srcTime = <<>>
    /\ store = EmptyStore
    /\ tindex = <<0, 0>>
    /\ writes = <<>>

InitNearest ==
    /\ CtorIdle
    /\ StoreIdle
    /\ nAxis \in SeqsOf(AxisVals, 1, MaxAxisLen)
    /\ nValue \in QueryVals
    /\ nResult = 0 - 1
    /\ nPc = "call"
    /\ WindowIdle
    /\ RetrievalIdle

FindNearest1d ==
    /\ nPc = "call"
    /\ nResult' = find_nearest_1d(nAxis, nValue)
    /\ nPc' = "done"
    /\ UNCHANGED <<nAxis, nValue>>
    /\ UNCHANGED <<varsW, varsR, varsS, varsC>>

NextNearest == FindNearest1d

SpecNearest == InitNearest /\ [][NextNearest]_vars

\* C10: find_nearest_1d returns a valid index that minimises |axis[i] - value|,
\* the lowest such index on ties; when the axis contains the value it is the
\* index of the first exact match; when the value lies outside the axis range
\* the element returned is the end of that range nearest to it, which on a
\* strictly monotonic axis is the first or the last index.
C10_NearestMinimisesLowestIndex ==
    nPc = "done" =>
        LET n == Len(nAxis)
            r == nResult + 1
            d(i) == Abs(nAxis[i] - nValue)
            lo == SetMin(Range(nAxis))
            hi == SetMax(Range(nAxis))
        IN  /\ nResult \in 0..(n - 1)
            /\ \A j \in 1..n : d(r) <= d(j)
            /\ \A j \in 1..(r - 1) : d(j) > d(r)
            /\ (nValue \in Range(nAxis)) =>
                   /\ nAxis[r] = nValue
                   /\ \A j \in 1..(r - 1) : nAxis[j] # nValue
            /\ (nValue < lo) => nAxis[r] = lo
            /\ (nValue > hi) => nAxis[r] = hi
            /\ ( /\ nValue < lo \/ nValue > hi
                 /\ StrictlyIncreasing(nAxis) \/ StrictlyDecreasing(nAxis) )
                   => nResult \in {0, n - 1}

\* A tie between two indices was resolved: the value sits midway between two
\* axis elements and the call has returned.
C10_Witness ==
    /\ nPc = "done"
    /\ Len(nAxis) >= 2
    /\ \E i, j \in 1..Len(nAxis) :
          /\ i < j
          /\ nAxis[i] # nAxis[j]
          /\ Abs(nAxis[i] - nValue) = Abs(nAxis[j] - nValue)
          /\ nResult = i - 1

----------------------------------------------------------------------------
(* SpecWindow: GridDAP.get_data and GetDAP.__call__ on grids of every size *)
(* in bounds, with every request in bounds.                                *)

\* The axis 0, 1, ..., n-1.
Ramp(n) == [i \in 1..n |-> i - 1]
\* np.meshgrid of two such axes: the x grid and the y grid of an n-by-n mesh.
MeshX(n) == [r \in 1..n |-> Ramp(n)]
MeshY(n) == [r \in 1..n |-> [c \in 1..n |-> r - 1]]

\* A physical range on one axis: None, or two values.
Ranges == {None} \cup (AxisVals \X AxisVals)
\* The ranges between the two ends of the value range, in either order.
EndRanges == {None} \cup ({0, MaxVal} \X {0, MaxVal})
\* A time range as the caller of GetDAP passes it.
TRanges ==
    {[kind |-> "none", v |-> None], [kind |-> "other", v |-> None]}
    \cup {[kind |-> "datetime", v |-> r] : r \in AxisVals \X AxisVals}
    \cup {[kind |-> "str", v |-> <<strftime(r[1]), strftime(r[2])>>] :
             r \in AxisVals \X AxisVals}

InitWindow ==
    /\ CtorIdle
    /\ NearestIdle
    /\ StoreIdle
    /\ RetrievalIdle
    /\ \E n \in 1..MaxAxisLen, nd \in {1, 2}, hasZ \in BOOLEAN :
          grid = [X |-> IF nd = 1 THEN Ramp(n) ELSE MeshX(n),
                  Y |-> IF nd = 1 THEN Ramp(n) ELSE MeshY(n),
                  Z |-> IF hasZ THEN Ramp(n) ELSE None,
                  time |-> Ramp(n),
                  ndim |-> nd]
    /\ win = [x |-> NoWindow, y |-> NoWindow, z |-> NoWindow, t |-> NoWindow]
    /\ call = [op |-> "", state |-> "idle", req |-> <<>>, trNone |-> FALSE,
               zrNone |-> FALSE, shape |-> <<>>, retries |-> 0]

\* The length of a[lo:hi] on a dimension of length n.
SliceLen(n, lo, hi) == Max2(0, Min2(hi, n) - Min2(lo, n))

\* GridDAP.get_indices followed by GridDAP.get_time_indices, as get_data
\* runs them: the four windows.
resolve(g, xrange, yrange, zrange, trange) ==
    [x |-> get_indices_xwin(g.X, g.ndim, xrange, yrange, g.Y),
     y |-> get_indices_ywin(g.X, g.ndim, xrange, yrange, g.Y),
     z |-> get_indices_zwin(g.Z, zrange),
     t |-> get_time_indices(g.time, trange)]

\* The shape of the array a successful bulk read returns (lines 356-357 and
\* 368-370): nc.variables[varname][t1:t2, (z1:z2,) y1:y2, x1:x2] on a variable
\* whose dimensions have the lengths of the axes.
bulk_shape(g, w) ==
    LET nyDim == Len(g.Y)
        nxDim == IF g.ndim = 1 THEN Len(g.X) ELSE Len(g.X[1])
        st == <<SliceLen(Len(g.time), w.t.a, w.t.b)>>
        sz == IF g.Z = None THEN <<>> ELSE <<SliceLen(Len(g.Z), w.z.a, w.z.b)>>
    IN  st \o sz \o <<SliceLen(nyDim, w.y.a, w.y.b), SliceLen(nxDim, w.x.a, w.x.b)>>

\* GridDAP.get_data(varname, xrange, yrange, zrange, trange) on a single file
\* whose reads succeed.
GetData ==
    /\ call.state = "idle"
    /\ \E xrange \in Ranges, yrange \in EndRanges, zrange \in EndRanges,
          trange \in Ranges :
          /\ win' = resolve(grid, xrange, yrange, zrange, trange)
          /\ call' = [op |-> "get_data", state |-> "returned",
                      req |-> <<xrange, yrange, zrange, trange>>,
                      trNone |-> (trange = None), zrNone |-> (zrange = None),
                      shape |-> bulk_shape(grid, win'), retries |-> 0]
    /\ UNCHANGED <<grid>>
    /\ UNCHANGED <<varsN, varsR, varsS, varsC>>

\* GetDAP.__call__(xrange, yrange, trange, zrange, outfile=None) for one
\* variable: check_trange, then load_data, which is GridDAP.get_data.
Call ==
    /\ call.state = "idle"
    /\ \E xrange \in Ranges, yrange \in EndRanges, zrange \in EndRanges,
          trange \in TRanges :
          LET tr == check_trange(trange)
          IN  IF tr.raised # ""
              THEN /\ call' = [op |-> "__call__", state |-> tr.raised,
                               req |-> <<xrange, yrange, zrange, trange>>,
                               trNone |-> (trange.kind = "none"),
                               zrNone |-> (zrange = None), shape |-> <<>>,
                               retries |-> 0]
                   /\ UNCHANGED win
              ELSE /\ win' = resolve(grid, xrange, yrange, zrange, tr.v)
                   /\ call' = [op |-> "__call__", state |-> "returned",
                               req |-> <<xrange, yrange, zrange, trange>>,
                               trNone |-> FALSE, zrNone |-> (zrange = None),
                               shape |-> bulk_shape(grid, win'), retries |-> 0]
    /\ UNCHANGED <<grid>>
    /\ UNCHANGED <<varsN, varsR, varsS, varsC>>

\* The shape of the array get_2d returns (lines 304-305):
\* nc.variables[varname][y1:y2, x1:x2] on a variable of two dimensions.
get_2d_shape(g, w) ==
    LET nyDim == Len(g.Y)
        nxDim == IF g.ndim = 1 THEN Len(g.X) ELSE Len(g.X[1])
    IN  <<SliceLen(nyDim, w.y.a, w.y.b), SliceLen(nxDim, w.x.a, w.x.b)>>

\* GridDAP.get_data(varname, xrange, yrange, None, None) on a single file
\* for a variable of two dimensions (lines 348-351): np.zeros((1, ny, nx))
\* is allocated (ValueError for a negative extent) and replaced by what
\* get_2d returns, after `retries` reads that raised.
GetData2d ==
    /\ call.state = "idle"
    /\ \E xrange \in Ranges, yrange \in EndRanges,
          retries \in 0..(RecursionLimit + 1) :
          LET w == resolve(grid, xrange, yrange, None, None)
              ny == w.y.b - w.y.a
              nx == w.x.b - w.x.a
              outcome == IF ny < 0 \/ nx < 0 THEN "ValueError"
                         ELSE IF retries > RecursionLimit THEN "RecursionError"
                         ELSE "returned"
          IN  /\ win' = w
              /\ call' = [op |-> "get_data_2d", state |-> outcome,
                          req |-> <<xrange, yrange, None, None>>,
                          trNone |-> TRUE, zrNone |-> TRUE,
                          shape |-> IF outcome = "returned"
                                    THEN get_2d_shape(grid, w) ELSE <<>>,
                          retries |-> IF outcome = "ValueError" THEN 0
                                      ELSE retries]
    /\ UNCHANGED <<grid>>
    /\ UNCHANGED <<varsN, varsR, varsS, varsC>>

NextWindow == GetData \/ Call \/ GetData2d

SpecWindow == InitWindow /\ [][NextWindow]_vars

WindowLen(w) == w.b - w.a

\* C7: on every axis (time, depth, y, x) on which the resolved start index
\* equals the resolved end index, the window get_indices / get_time_indices
\* leaves has length end - start >= 1.
C7_DegenerateWindowWidened ==
    call.state = "returned" =>
        /\ (win.t.ra = win.t.rb) => WindowLen(win.t) >= 1
        /\ (grid.Z # None /\ win.z.ra = win.z.rb) => WindowLen(win.z) >= 1
        /\ (win.y.ra = win.y.rb) => WindowLen(win.y) >= 1
        /\ (win.x.ra = win.x.rb) => WindowLen(win.x) >= 1

\* C8: on every axis the resolved window has start <= end, also for a range
\* given in descending order.
C8_WindowStartLeEnd ==
    call.state = "returned" =>
        /\ win.t.a <= win.t.b
        /\ (grid.Z # None) => win.z.a <= win.z.b
        /\ win.y.a <= win.y.b
        /\ win.x.a <= win.x.b

\* C9: GetDAP.__call__ with trange=None and zrange=None completes without
\* error and returns an array whose first dimension is the length of the time
\* axis.
C9_CallWithNoTimeRangeReturnsAllSteps ==
    (call.op = "__call__" /\ call.trNone /\ call.zrNone) =>
        /\ call.state = "returned"
        /\ call.shape[1] = Len(grid.time)

\* C12: for a variable of two dimensions get_data_singlefile returns an
\* array of shape (1, y-extent, x-extent), whether the first read succeeds
\* or the read is retried.
C12_TwoDimReturnsSingleRecord ==
    (call.op = "get_data_2d" /\ call.state = "returned") =>
        call.shape = <<1>> \o get_2d_shape(grid, win)

----------------------------------------------------------------------------
(* Spec: a retrieval session of GridDAP on one file or on a file list: the *)
(* MFncdap index is built, a time window is requested, and the data is     *)
(* read file by file, each remote open and read succeeding or failing.     *)

\* Remote opens and one-record reads that may fail in one session.
MaxFail == 1

TimeAxes == {a \in SeqsOf(0..MaxT, 1, MaxRec) : StrictlyIncreasing(a)}
\* A requested time range: None, or two timestamps.
TimeRanges == {None} \cup ((0..MaxT) \X (0..MaxT))

Init ==
    /\ CtorIdle
    /\ NearestIdle
    /\ WindowIdle
    /\ StoreIdle
    /\ multifile \in BOOLEAN
    /\ \E n \in 1..Len(FileNames) :
          /\ (~multifile) => n = 1
          /\ \E axes \in [1..n -> TimeAxes] :
                files = [k \in 1..n |-> [name |-> FileNames[k], time |-> axes[k]]]
    /\ mf = NoMF
    /\ rq = [NoRq EXCEPT !.pc = IF multifile THEN "init" ELSE "ready"]
    /\ ck = NoCk
    /\ fails = 0
    /\ depth = 0

FileLen(f) == Len(files[FilePos(f)].time)

\* MFncdap(self._ncfiles, timevar=self.timecoord) (line 109): the index is
\* built, or the constructor raises.
MFInit ==
    /\ rq.pc = "init"
    /\ mf' = MFncdap_init(files)
    /\ rq' = [rq EXCEPT !.pc = IF mf'.state = "built" THEN "ready" ELSE "raised"]
    /\ UNCHANGED <<files, multifile, ck, fails, depth>>
    /\ UNCHANGED <<varsN, varsW, varsS, varsC>>

\* The arguments of a get_data_singlefile(varname, nc, t1, t2) call.
new_chunk(f, t1, t2) == [NoCk EXCEPT !.f = f, !.t1 = t1, !.t2 = t2]

\* GridDAP.get_data from get_time_indices on (lines 188-196) and the part of
\* get_data_multifile before its loop (lines 203-210, 265).
GetDataStart ==
    /\ rq.pc = "ready"
    /\ \E trange \in TimeRanges :
          LET time == IF multifile THEN mf.time ELSE files[1].time
              w == get_time_indices(time, trange)
              nt == w.b - w.a
              localtime == Slice(time, w.a, w.b)
              r0 == [rq EXCEPT !.t1 = w.a, !.t2 = w.b, !.nt = nt,
                               !.localtime = localtime]
          IN  IF ~multifile
              THEN /\ rq' = [r0 EXCEPT !.pc = "bulk"]
                   /\ ck' = new_chunk(files[1].name, w.a, w.b)
              ELSE IF nt < 0
                   THEN \* np.zeros(sz) raises ValueError
                        /\ rq' = [r0 EXCEPT !.pc = "raised"]
                        /\ UNCHANGED ck
                   ELSE LET ts == MFncdap_call(mf.lookup, localtime)
                        IN  /\ rq' = [r0 EXCEPT !.data = zeros(nt), !.tslice = ts,
                                                !.k = 1, !.p1 = 0,
                                                !.pc = IF ts = <<>> THEN "done"
                                                       ELSE "open"]
                            /\ UNCHANGED ck
    /\ UNCHANGED <<files, multifile, mf, fails, depth>>
    /\ UNCHANGED <<varsN, varsW, varsS, varsC>>

\* openfile(ff) (lines 255-263): Dataset(ff) succeeds and every openfile
\* frame returns the handle.
OpenOk ==
    /\ rq.pc = "open"
    /\ LET s == rq.tslice[rq.k]
       IN  ck' = new_chunk(s.f, s.lo, s.hi + 1)
    /\ rq' = [rq EXCEPT !.pc = "bulk"]
    /\ depth' = 0
    /\ UNCHANGED <<files, multifile, mf, fails>>
    /\ UNCHANGED <<varsN, varsW, varsS, varsC>>

\* openfile(ff): Dataset(ff) raises; openfile sleeps and calls itself.
OpenFail ==
    /\ rq.pc = "open"
    /\ fails < MaxFail
    /\ fails' = fails + 1
    /\ depth' = depth + 1
    /\ UNCHANGED <<files, multifile, mf, rq, ck>>
    /\ UNCHANGED <<varsN, varsW, varsS, varsC>>

\* get_data_singlefile returns `ret`: get_data returns it (line 194), or the
\* loop of get_data_multifile stores it and moves to the next file
\* (lines 269-274).
Return(c, ret) ==
    /\ ck' = [c EXCEPT !.returned = TRUE, !.ret = ret]
    /\ IF ~multifile
       THEN rq' = [rq EXCEPT !.pc = "done", !.data = ret]
       ELSE LET s == rq.tslice[rq.k]
                p2 == rq.p1 + s.hi - s.lo
                asg == assign_rows(rq.data, rq.p1, p2, ret)
            IN  IF asg.raised
                THEN rq' = [rq EXCEPT !.pc = "raised"]
                ELSE rq' = [rq EXCEPT !.data = asg.data, !.p1 = p2 + 1,
                                      !.k = rq.k + 1,
                                      !.pc = IF rq.k = Len(rq.tslice) THEN "done"
                                             ELSE "open"]

\* The array get_3d_step / get_4d_step is handed: np.zeros((self.nt, ...)).
step_buffer(nt) == zeros(nt)

\* get_data_singlefile, ndim 3 or 4 (lines 353-376): the bulk read succeeds.
BulkOk ==
    /\ rq.pc = "bulk"
    /\ graball
    /\ Return(ck, bulk_read(ck.f, FileLen(ck.f), ck.t1, ck.t2))
    /\ UNCHANGED <<files, multifile, mf, fails, depth>>
    /\ UNCHANGED <<varsN, varsW, varsS, varsC>>

\* The bulk read raises (or graball is off): the result array is allocated
\* and get_3d_step(data, t1) starts.
BulkFail ==
    /\ rq.pc = "bulk"
    /\ IF rq.nt < 0
       THEN \* np.zeros raises ValueError inside the except clause
            /\ rq' = [rq EXCEPT !.pc = "raised", !.fellBack = graball]
            /\ ck' = [ck EXCEPT !.bulkFailed = graball]
       ELSE /\ rq' = [rq EXCEPT !.pc = "step", !.fellBack = graball]
            /\ ck' = [ck EXCEPT !.bulkFailed = graball,
                                !.buf = step_buffer(rq.nt),
                                !.ii = 0, !.tt = ck.t1]
    /\ UNCHANGED <<files, multifile, mf, fails, depth>>
    /\ UNCHANGED <<varsN, varsW, varsS, varsC>>

\* One pass of the loop of get_3d_step / get_4d_step (lines 319-322 and
\* 336-339): record tt is read into row ii; after the last record the array
\* is returned.  A row beyond the array raises IndexError, which the bare
\* except catches like a failed read.
StepOk ==
    /\ rq.pc = "step"
    /\ IF ck.ii >= Len(ck.buf)
       THEN /\ ck' = [ck EXCEPT !.ii = 0, !.stepFailed = TRUE]
            /\ UNCHANGED rq
       ELSE LET c == [ck EXCEPT !.buf[ck.ii + 1] = rec(ck.f, ck.tt)]
            IN  IF ck.tt + 1 >= ck.t2
                THEN Return(c, c.buf)
                ELSE /\ ck' = [c EXCEPT !.ii = ck.ii + 1, !.tt = ck.tt + 1]
                     /\ UNCHANGED rq
    /\ depth' = IF ck.ii >= Len(ck.buf) THEN depth + 1
                ELSE IF ck.tt + 1 >= ck.t2 THEN 0 ELSE depth
    /\ UNCHANGED <<files, multifile, mf, fails>>
    /\ UNCHANGED <<varsN, varsW, varsS, varsC>>

\* The read of record tt raises: the except clause sleeps and calls
\* get_3d_step(data, tt), whose enumerate starts again at row 0
\* (lines 324-327 and 341-344).
StepFail ==
    /\ rq.pc = "step"
    /\ fails < MaxFail
    /\ fails' = fails + 1
    /\ depth' = depth + 1
    /\ ck' = [ck EXCEPT !.ii = 0, !.stepFailed = TRUE]
    /\ UNCHANGED <<files, multifile, mf, rq>>
    /\ UNCHANGED <<varsN, varsW, varsS, varsC>>

Next ==
    \/ MFInit
    \/ GetDataStart
    \/ OpenOk
    \/ OpenFail
    \/ BulkOk
    \/ BulkFail
    \/ StepOk
    \/ StepFail

Spec == Init /\ [][Next]_vars

\* The retrieval has had no transient failure: every remote open and every
\* read so far succeeded.
NoFailure == fails = 0 /\ ~rq.fellBack

\* The record the lookup assigns to the i-th requested timestamp.
Expected(i) ==
    LET e == mf.lookup[strftime(rq.localtime[i])]
    IN  rec(e[1], e[2])

\* The file the lookup assigns to the i-th requested timestamp.
FileOf(i) == mf.lookup[strftime(rq.localtime[i])][1]

\* The records taken from each file occupy one contiguous block of output
\* positions.
ContiguousBlocks ==
    \A i, j, k \in 1..Len(rq.localtime) :
        (i < j /\ j < k /\ FileOf(i) = FileOf(k)) => FileOf(j) = FileOf(i)

\* C3: when the bulk read of a get_data_singlefile call raised and every
\* one-record read after it succeeded, the array returned has the shape
\* (t2 - t1 records) and the values of a successful bulk read of the window,
\* for a single file and for a per-file sub-window of a multi-file retrieval.
C3_FallbackEqualsBulkRead ==
    (ck.returned /\ ck.bulkFailed /\ ~ck.stepFailed) =>
        /\ Len(ck.ret) = ck.t2 - ck.t1
        /\ ck.ret = bulk_read(ck.f, FileLen(ck.f), ck.t1, ck.t2)

\* The single-file half of C3, which the code satisfies: get_data passes
\* t1 = self.t1 and t2 = self.t2, so self.nt rows are t2 - t1 rows.
C3_SingleFileFallbackEqualsBulkRead ==
    (~multifile /\ ck.returned /\ ck.bulkFailed /\ ~ck.stepFailed) =>
        /\ Len(ck.ret) = ck.t2 - ck.t1
        /\ ck.ret = bulk_read(ck.f, FileLen(ck.f), ck.t1, ck.t2)

C5_RowsFollowLookup ==
    (multifile /\ rq.pc = "done" /\ NoFailure) =>
        /\ Len(rq.data) = rq.nt
        /\ \A i \in 1..Len(rq.localtime) : rq.data[i] = Expected(i)

C14_StepRetryKeepsRows ==
    (ck.returned /\ ck.bulkFailed) =>
        \A i \in 0..(ck.t2 - ck.t1 - 1) : ck.ret[i + 1] = rec(ck.f, ck.t1 + i)

----------------------------------------------------------------------------
(* SpecRetry: the same retrieval session with remote opens and one-record  *)
(* reads that may fail any number of times in a row.  openfile,            *)
(* get_3d_step and get_4d_step retry by calling themselves from their      *)
(* except clause, so every failure in a row adds a frame to the Python     *)
(* stack, and the interpreter raises RecursionError when the stack is full.*)

\* openfile(ff): Dataset(ff) raises, the except clause sleeps and calls
\* openfile(ff) again (lines 258-261).
OpenRetry ==
    /\ rq.pc = "open"
    /\ depth < RecursionLimit
    /\ depth' = depth + 1
    /\ fails' = fails + 1
    /\ UNCHANGED <<files, multifile, mf, rq, ck>>
    /\ UNCHANGED <<varsN, varsW, varsS, varsC>>

\* Dataset(ff) raises in the deepest frame the stack holds: the call of
\* openfile in the except clause raises RecursionError, which no frame
\* catches (the call is outside the try), and get_data_multifile raises.
OpenRecursionError ==
    /\ rq.pc = "open"
    /\ depth = RecursionLimit
    /\ rq' = [rq EXCEPT !.pc = "RecursionError"]
    /\ fails' = fails + 1
    /\ UNCHANGED <<files, multifile, mf, ck, depth>>
    /\ UNCHANGED <<varsN, varsW, varsS, varsC>>

\* The read of record tt raises: the except clause sleeps and calls
\* get_3d_step(data, tt) (lines 324-327 and 341-344).
StepRetry ==
    /\ rq.pc = "step"
    /\ depth < RecursionLimit
    /\ depth' = depth + 1
    /\ fails' = fails + 1
    /\ ck' = [ck EXCEPT !.ii = 0, !.stepFailed = TRUE]
    /\ UNCHANGED <<files, multifile, mf, rq>>
    /\ UNCHANGED <<varsN, varsW, varsS, varsC>>

\* The read raises in the deepest frame the stack holds: RecursionError
\* leaves get_3d_step through the except clauses of every frame and of
\* get_data_singlefile (lines 361-363), and get_data raises.
StepRecursionError ==
    /\ rq.pc = "step"
    /\ depth = RecursionLimit
    /\ rq' = [rq EXCEPT !.pc = "RecursionError"]
    /\ fails' = fails + 1
    /\ UNCHANGED <<files, multifile, mf, ck, depth>>
    /\ UNCHANGED <<varsN, varsW, varsS, varsC>>

NextRetry ==
    \/ MFInit
    \/ GetDataStart
    \/ OpenOk
    \/ OpenRetry
    \/ OpenRecursionError
    \/ BulkOk
    \/ BulkFail
    \/ StepOk
    \/ StepRetry
    \/ StepRecursionError

\* The interpreter keeps running the call, and a remote that is asked again
\* and again answers in the end.
FairRetry ==
    /\ WF_vars(MFInit)
    /\ WF_vars(GetDataStart)
    /\ WF_vars(BulkOk \/ BulkFail)
    /\ SF_vars(OpenOk)
    /\ SF_vars(StepOk)

SpecRetry == Init /\ [][NextRetry]_vars /\ FairRetry

\* C11: a failed open or read is always followed by another attempt, so a
\* retrieval never raises because of transient failures, and once its
\* arguments are accepted it returns data when the remote answers in the end.
C11_TransientFailuresNeverSurfaced ==
    /\ [](rq.pc # "RecursionError")
    /\ (~multifile /\ rq.pc \in {"bulk", "step"}) ~> (rq.pc = "done")

----------------------------------------------------------------------------
(* SpecStore: GetDAP.write_var called again and again on one output store, *)
(* each call with a variable and the data of a window of the source axis.  *)

\* The write_var calls of one session.
MaxWrites == 3

\* The data retrieved for variable v at timestamp t.
D(v, t) == <<v, t>>

InitStore ==
    /\ CtorIdle
    /\ NearestIdle
    /\ WindowIdle
    /\ RetrievalIdle
    /\ srcTime \in {a \in SeqsOf(0..MaxT, MaxRec + 1, MaxRec + 1) :
                       StrictlyIncreasing(a)}
    /\ store = EmptyStore
    /\ tindex = <<0, 0>>
    /\ writes = <<>>

\* GetDAP.write_var(outfile, var, data) after a get_data over records [a, b)
\* of the source: dapobj.localtime is the window's timestamps and data holds
\* one row per timestamp.  The x, y and depth coordinate variables are
\* rewritten with the same values on every call and are left out.
WriteVar ==
    /\ Len(writes) < MaxWrites
    /\ \E v \in Variables, a \in 0..(Len(srcTime) - 1), b \in 1..Len(srcTime) :
          /\ a < b
          /\ LET tout == Slice(srcTime, a, b)
                 data == [i \in 1..Len(tout) |-> D(v, tout[i])]
                 wt == write_time_var(store, tout)
                 ntime == Len(wt.time)
                 old == pad(store.data[v], ntime)
                 new == set_rows(old, wt.tindex[1], data)
             IN  /\ tindex' = wt.tindex
                 /\ store' = [hasTime |-> TRUE,
                              time |-> pad(wt.time, Len(new)),
                              created |-> store.created \cup {v},
                              data |-> [u \in Variables |->
                                          IF u = v THEN new
                                          ELSE IF u \in store.created
                                               THEN pad(store.data[u], Len(new))
                                               ELSE <<>>]]
                 /\ writes' = Append(writes, [v |-> v, tout |-> tout])
    /\ UNCHANGED srcTime
    /\ UNCHANGED <<varsN, varsW, varsR, varsC>>

NextStore == WriteVar

SpecStore == InitStore /\ [][NextStore]_vars

\* The rows of the store's time axis that hold timestamp t.
TimeRows(t) == {k \in 1..Len(store.time) : store.time[k] = date2num(t)}
\* The rows of variable v that hold the data of timestamp t.
DataRows(v, t) == {k \in 1..Len(store.data[v]) : store.data[v][k] = D(v, t)}

Overlap(w1, w2) == Range(w1.tout) \cap Range(w2.tout) # {}

\* C1: after two successive write_var calls of one variable with overlapping
\* time windows the store holds every timestamp of the union of the windows
\* exactly once on its time axis, and that timestamp's data in exactly that
\* one row.
C1_OverlappingWritesNoDuplicates ==
    ( /\ Len(writes) = 2
      /\ writes[1].v = writes[2].v
      /\ Overlap(writes[1], writes[2]) ) =>
        \A h \in 1..2 : \A t \in Range(writes[h].tout) :
            /\ Cardinality(TimeRows(t)) = 1
            /\ DataRows(writes[h].v, t) = TimeRows(t)

\* The part of C1 the code satisfies: the same, for a second window that
\* starts at a timestamp the first window holds.
C1_ForwardOverlapNoDuplicates ==
    ( /\ Len(writes) = 2
      /\ writes[2].tout[1] \in Range(writes[1].tout) ) =>
        \A h \in 1..2 : \A t \in Range(writes[h].tout) :
            /\ Cardinality(TimeRows(t)) = 1
            /\ DataRows(writes[h].v, t) = TimeRows(t)

\* C2: a write_var call never rewrites what an earlier call stored: every
\* time value and every written data row keeps its row and its value.
C2_NeverRewritesStoredSamples ==
    [][ /\ \A k \in 1..Len(store.time) :
              /\ k <= Len(store'.time)
              /\ store'.time[k] = store.time[k]
        /\ \A v \in store.created : \A k \in 1..Len(store.data[v]) :
              store.data[v][k] # Fill =>
                 /\ k <= Len(store'.data[v])
                 /\ store'.data[v][k] = store.data[v][k] ]_vars

\* C15: after any sequence of write_var calls the time axis and the data
\* variables are aligned: every written row k of every data variable holds
\* the data retrieved for the timestamp stored at row k of the time axis.
C15_TimeAndDataAligned ==
    \A v \in store.created : \A k \in 1..Len(store.data[v]) :
        store.data[v][k] # Fill =>
            /\ k <= Len(store.time)
            /\ store.data[v][k] = D(v, num2pydate(store.time[k]))

----------------------------------------------------------------------------
(* SpecCtor: GridDAP(url, **kwargs) for every kind of source reference.    *)

\* isinstance(url, type)
isinstance(url, type) == url.kind = type

\* The branch GridDAP.__init__ takes on its url argument (lines 65-75).
url_branch_anylist(url, mfile) ==
    IF isinstance(url, "str") THEN "path"
    ELSE IF isinstance(url, "Dataset") THEN "handle"
    ELSE IF isinstance(url, "list") THEN "list"
    ELSE "unknown"

url_branch(url, mfile) ==
    IF isinstance(url, "str") THEN "path"
    ELSE IF isinstance(url, "Dataset") THEN "handle"
    ELSE IF isinstance(url, "list") /\ mfile THEN "list"
    ELSE "unknown"

\* The source references a caller can pass: a path, an open Dataset, a list
\* or a tuple of paths, None, a number.
Urls ==
    {[kind |-> k, v |-> <<f>>] : k \in {"str", "Dataset"}, f \in Range(FileNames)}
    \cup {[kind |-> k, v |-> l] : k \in {"list", "tuple"},
                                  l \in SeqsOf(Range(FileNames), 0, Len(FileNames))}
    \cup {[kind |-> "NoneType", v |-> <<>>], [kind |-> "int", v |-> <<>>]}

InitCtor ==
    /\ NearestIdle
    /\ WindowIdle
    /\ RetrievalIdle
    /\ StoreIdle
    /\ \E url \in Urls, mfile \in BOOLEAN, gridfile \in {None, <<"G">>},
          zcoord \in {None, <<"depth">>} :
          ctor = [NoCtor EXCEPT !.url = url, !.multifile = mfile,
                                !.gridfile = gridfile, !.zcoord = zcoord,
                                !.state = "new"]

\* GridDAP.__init__ (lines 60-83) and get_coords (lines 86-96).  okOpen and
\* okGrid say whether Dataset(...) opens the source and the grid file,
\* okCoords whether the coordinate variables are read; none of the three is
\* retried.
GridDAP_init ==
    /\ ctor.state = "new"
    /\ \E okOpen \in BOOLEAN, okGrid \in BOOLEAN, okCoords \in BOOLEAN :
          LET br == url_branch(ctor.url, ctor.multifile)
              first == IF br = "path" THEN ctor.url.v
                       ELSE IF br = "list" THEN Slice(ctor.url.v, 0, 1)
                       ELSE <<>>
              grid2 == IF ctor.gridfile = None THEN <<>> ELSE ctor.gridfile
              raised(exc, opened, attempts) ==
                  [ctor EXCEPT !.state = exc, !.opened = opened,
                               !.attempts = attempts]
          IN  ctor' =
                IF br = "unknown"
                THEN raised("Exception: Unknown input url type", <<>>, 0)
                ELSE IF br = "list" /\ ctor.url.v = <<>>
                THEN raised("IndexError", <<>>, 0)
                ELSE IF br # "handle" /\ ~okOpen
                THEN raised("OSError", <<>>, 1)
                ELSE IF grid2 # <<>> /\ ~okGrid
                THEN raised("OSError", first, Len(first) + 1)
                ELSE IF ~okCoords
                THEN raised("KeyError", first \o grid2, Len(first) + Len(grid2))
                ELSE [ctor EXCEPT !.state = "built",
                                  !.opened = first \o grid2,
                                  !.attempts = Len(first) + Len(grid2),
                                  !.coords = {"X", "Y"} \cup
                                      (IF ctor.zcoord = None THEN {} ELSE {"Z"})]
    /\ UNCHANGED <<varsN, varsW, varsR, varsS>>

NextCtor == GridDAP_init

SpecCtor == InitCtor /\ [][NextCtor]_vars

\* A source reference that is not a path string, not an open Dataset, and
\* not a list accompanied by multifile=True.
Unsupported(url, mfile) ==
    /\ url.kind \notin {"str", "Dataset"}
    /\ ~(url.kind = "list" /\ mfile)

\* C13: constructing GridDAP with an unsupported source reference (a list
\* with multifile=False included) raises at once: no dataset is opened, no
\* open is attempted or retried, and no coordinate is read.
C13_UnknownSourceRaisesImmediately ==
    (ctor.state \notin {"idle", "new"} /\ Unsupported(ctor.url, ctor.multifile)) =>
        /\ ctor.state = "Exception: Unknown input url type"
        /\ ctor.opened = <<>>
        /\ ctor.attempts = 0
        /\ ctor.coords = {}

C13_Witness ==
    /\ ctor.state = "Exception: Unknown input url type"
    /\ ctor.url.kind = "list"
    /\ Len(ctor.url.v) = 2
    /\ ~ctor.multifile

====
